---------------------------- MODULE Spec2Model ----------------------------
(***************************************************************************)
(* European option pricing (src/main.cpp): the payoff hierarchy, the       *)
(* random source, and the three pricers (Monte Carlo, Black-Scholes,       *)
(* binomial tree), modelled as state machines over the loops of the code.  *)
(*                                                                         *)
(* A C++ double is modelled as a record: a finite fixed-point number       *)
(* [k |-> "fin", v |-> m] standing for m / Scale, or one of the IEEE       *)
(* specials NaN, +Inf, -Inf.  Every arithmetic operation rounds its result *)
(* to the representable grid (truncation toward zero, which is             *)
(* sign-symmetric like IEEE rounding) and overflows to an infinity beyond  *)
(* MaxFin.  Signed zeros are not distinguished.                            *)
(***************************************************************************)
EXTENDS Integers, Sequences, FiniteSets, TLC

---------------------------------------------------------------------------
(* The double type *)

Scale == 10 * 10 * 10

MaxFin == 2000 * Scale

IntMax == 2147483647

Fin(m) == [k |-> "fin", v |-> m]

NaN == [k |-> "nan", v |-> 0]

PInf == [k |-> "inf", v |-> 1]

NInf == [k |-> "inf", v |-> -1]

Zero == Fin(0)

One == Fin(Scale)

IsFin(a) == a.k = "fin"

IsNaN(a) == a.k = "nan"

IsInf(a) == a.k = "inf"

Abs(m) == IF m < 0 THEN -m ELSE m

Sgn(m) == IF m > 0 THEN 1 ELSE IF m < 0 THEN -1 ELSE 0

SignedInf(s) == IF s > 0 THEN PInf ELSE NInf

\* an integer quotient rounded toward zero
TDiv(a, b) == Sgn(a) * Sgn(b) * (Abs(a) \div Abs(b))

\* a finite result, or the infinity it overflows to
Round(m) == IF Abs(m) > MaxFin THEN SignedInf(Sgn(m)) ELSE Fin(m)

\* int -> double conversion
ToDouble(m) == Fin(m * Scale)

FNeg(a) == IF IsNaN(a) THEN NaN ELSE [k |-> a.k, v |-> -a.v]

FAdd(a, b) ==
    IF IsNaN(a) \/ IsNaN(b) THEN NaN
    ELSE IF IsInf(a) /\ IsInf(b) THEN (IF a.v = b.v THEN a ELSE NaN)
    ELSE IF IsInf(a) THEN a
    ELSE IF IsInf(b) THEN b
    ELSE Round(a.v + b.v)

FSub(a, b) == FAdd(a, FNeg(b))

FMul(a, b) ==
    IF IsNaN(a) \/ IsNaN(b) THEN NaN
    ELSE IF IsInf(a) \/ IsInf(b)
         THEN (IF a.v = 0 \/ b.v = 0 THEN NaN ELSE SignedInf(Sgn(a.v) * Sgn(b.v)))
    ELSE IF a.v = 0 \/ b.v = 0 THEN Zero
    ELSE IF Abs(b.v) > IntMax \div Abs(a.v) THEN SignedInf(Sgn(a.v) * Sgn(b.v))
    ELSE Round(TDiv(a.v * b.v, Scale))

FDiv(a, b) ==
    IF IsNaN(a) \/ IsNaN(b) THEN NaN
    ELSE IF IsInf(a) /\ IsInf(b) THEN NaN
    ELSE IF IsInf(a) THEN SignedInf(a.v * (IF b.v < 0 THEN -1 ELSE 1))
    ELSE IF IsInf(b) THEN Zero
    ELSE IF b.v = 0 THEN (IF a.v = 0 THEN NaN ELSE SignedInf(Sgn(a.v)))
    ELSE Round(TDiv(a.v * Scale, b.v))

\* a < b on doubles: false whenever an operand is NaN
FLess(a, b) ==
    IF IsNaN(a) \/ IsNaN(b) THEN FALSE
    ELSE IF IsInf(a) /\ IsInf(b) THEN a.v < b.v
    ELSE IF IsInf(a) THEN a.v < 0
    ELSE IF IsInf(b) THEN b.v > 0
    ELSE a.v < b.v

\* std::max(a, b) is (a < b) ? b : a
FMax(a, b) == IF FLess(a, b) THEN b ELSE a

---------------------------------------------------------------------------
(* <cmath> on the fixed-point grid *)

RECURSIVE SqrtNewton(_, _)
SqrtNewton(m, x) ==
    LET y == (x + m \div x) \div 2
    IN  IF y >= x THEN x ELSE SqrtNewton(m, y)

\* floor(sqrt(m)) for an integer m >= 0
ISqrt(m) == IF m = 0 THEN 0 ELSE SqrtNewton(m, m)

FSqrt(a) ==
    IF IsNaN(a) THEN NaN
    ELSE IF IsInf(a) THEN (IF a.v > 0 THEN PInf ELSE NaN)
    ELSE IF a.v < 0 THEN NaN
    ELSE Fin(ISqrt(a.v * Scale))

RECURSIVE ExpSeries(_, _, _, _)
ExpSeries(x, t, term, acc) ==
    IF term = 0 THEN acc
    ELSE ExpSeries(x, t + 1, TDiv(term * x, (t + 1) * Scale), acc + term)

\* exp of a finite fixed-point x with 0 <= x <= ExpMax
ExpPos(x) == ExpSeries(x, 0, Scale, 0)

ExpMax == 7 * Scale

FExp(a) ==
    IF IsNaN(a) THEN NaN
    ELSE IF IsInf(a) THEN (IF a.v > 0 THEN PInf ELSE Zero)
    ELSE IF a.v > ExpMax THEN PInf
    ELSE IF a.v < -ExpMax THEN Zero
    ELSE IF a.v >= 0 THEN Fin(ExpPos(a.v))
    ELSE Fin(TDiv(Scale * Scale, ExpPos(-a.v)))

RECURSIVE AtanhSeries(_, _, _, _)
AtanhSeries(t2, t, pw, acc) ==
    IF pw = 0 THEN acc
    ELSE AtanhSeries(t2, t + 2, TDiv(pw * t2, Scale), acc + TDiv(pw, t))

\* ln y for Scale/2 <= y <= 2*Scale, as 2*atanh((y-1)/(y+1))
LnNear(y) ==
    LET t == TDiv((y - Scale) * Scale, y + Scale)
    IN  2 * AtanhSeries(TDiv(t * t, Scale), 1, t, 0)

RECURSIVE LnFix(_)
LnFix(y) ==
    IF y > 2 * Scale THEN LnFix(y \div 2) + LnNear(2 * Scale)
    ELSE IF 2 * y < Scale THEN LnFix(2 * y) - LnNear(2 * Scale)
    ELSE LnNear(y)

FLog(a) ==
    IF IsNaN(a) THEN NaN
    ELSE IF IsInf(a) THEN (IF a.v > 0 THEN PInf ELSE NaN)
    ELSE IF a.v < 0 THEN NaN
    ELSE IF a.v = 0 THEN NInf
    ELSE Fin(LnFix(a.v))

RECURSIVE ErfSeries(_, _, _, _)
ErfSeries(x2, t, term, acc) ==
    IF term = 0 THEN acc
    ELSE ErfSeries(x2, t + 1,
                   -TDiv(TDiv(term * x2, Scale) * (2 * t + 1), (t + 1) * (2 * t + 3)),
                   acc + term)

ErfMax == 3 * Scale

\* erf of a finite fixed-point x: the Maclaurin series scaled by 2/sqrt(pi),
\* kept within [-1, 1] as erf is
ErfFix(x) ==
    IF x >= ErfMax THEN Scale
    ELSE IF x <= -ErfMax THEN -Scale
    ELSE LET s == ErfSeries(TDiv(x * x, Scale), 0, x, 0)
             e == TDiv(s * 2 * Scale, ISqrt(3141593))
         IN  IF e > Scale THEN Scale ELSE IF e < -Scale THEN -Scale ELSE e

FErf(a) ==
    IF IsNaN(a) THEN NaN
    ELSE IF IsInf(a) THEN Fin(a.v * Scale)
    ELSE Fin(ErfFix(a.v))

RECURSIVE PowNat(_, _)
PowNat(a, e) == IF e = 0 THEN One ELSE FMul(PowNat(a, e - 1), a)

\* pow(a, e) for an int exponent e: pow(x, 0) is 1 for every x, NaN included
FPow(a, e) ==
    IF e = 0 THEN One
    ELSE IF e > 0 THEN PowNat(a, e)
    ELSE FDiv(One, PowNat(a, -e))

---------------------------------------------------------------------------
(* Program state *)

VARIABLES
    p,             \* Parameters {S, sigma, r, T} of the caller (main)
    K,             \* the caller's strike (double K in main)
    opts,          \* the caller's Option objects: "call" and "put", built from K
    rng,           \* the caller's RNG: its seed and how far its stream has advanced
    pc,            \* where control is
    op,            \* the pricer being run
    option,        \* the const Option& argument (which object it refers to)
    n,             \* mc_price: int n
    N,             \* BinomialTree::price: int N
    i, j,          \* loop counters
    total_payoff,  \* mc_price: the accumulator
    crr,           \* BinomialTree::price: dt, u, d, disc, prob
    values,        \* BinomialTree::price: vector<double> values (index k is values[k+1])
    ret,           \* outcome of the last call
    calls,         \* calls made so far
    startPos,      \* rng position when the running mc_price was entered
    sumPaths,      \* sum of the path counts of the mc_price calls made
    iters,         \* mc_price loop iterations of the running call
    termEvals,     \* terminal-node evaluations of the running call
    updates,       \* backward-induction updates of the running call
    touched,       \* indices of values read or written by the running call
    ST,            \* a terminal price handed to payoff by a direct caller
    obs,           \* values a direct caller has received, by name
    th,            \* concurrent callers: one frame per thread
    rngs,          \* concurrent callers: the RNG instances
    raced          \* whether a data race has happened

vars == <<p, K, opts, rng, pc, op, option, n, N, i, j, total_payoff, crr, values, ret,
          calls, startPos, sumPaths, iters, termEvals, updates, touched, ST, obs,
          th, rngs, raced>>

---------------------------------------------------------------------------
(* Bounds of the model and the inputs drawn *)

MaxPaths == 3

MaxSteps == 3

MaxCalls == 2

MaxSeed == 1

Half == Fin(Scale \div 2)

SpotSet == {Fin(100 * Scale)}

SigmaSet == {Zero, Fin(200), Fin(400)}

RateSet == {Zero, Fin(50)}

MaturitySet == {Zero, One, Fin(2 * Scale)}

StrikeSet == {Zero, Fin(90 * Scale), Fin(110 * Scale)}

PathCounts == -1 .. MaxPaths

StepCounts == -2 .. MaxSteps

OptionRefs == {"call", "put"}

---------------------------------------------------------------------------
(* Option, EuropeanCall, EuropeanPut *)

EuropeanCall(strike0) == [cls |-> "EuropeanCall", K |-> strike0]

EuropeanPut(strike0) == [cls |-> "EuropeanPut", K |-> strike0]

\* faulty variant: the put computed as the call is
payoffSwapped(o, st) == FMax(FSub(st, o.K), Zero)

payoff(o, st) ==
    IF o.cls = "EuropeanCall" THEN FMax(FSub(st, o.K), Zero)
    ELSE FMax(FSub(o.K, st), Zero)

call(o) == o.cls = "EuropeanCall"

strike(o) == o.K

Parameters(S0, sigma0, r0, T0) == [S |-> S0, sigma |-> sigma0, r |-> r0, T |-> T0]

---------------------------------------------------------------------------
(* RNG: a seeded generator; its stream is a function of seed and position *)

ZVals == <<Fin(-1500), Fin(-500), Zero, Fin(500), Fin(1500)>>

RNG(seed0) == [seed |-> seed0, pos |-> 0]

Draw(g) == ZVals[((g.seed * 2 + g.pos * (g.pos + g.seed + 1)) % Len(ZVals)) + 1]

Advance(g) == [g EXCEPT !.pos = @ + 1]

\* faulty variant: a draw returned without advancing the generator
sampleStuck(g) == [z |-> Draw(g), g |-> g]

\* double z = rng.sample(): the draw and the generator after it
sample(g) == [z |-> Draw(g), g |-> Advance(g)]

---------------------------------------------------------------------------
(* Outcomes of a call *)

NoRet == [kind |-> "none", val |-> Zero]

Value(x) == [kind |-> "value", val |-> x]

Thrown(what) == [kind |-> what, val |-> Zero]

---------------------------------------------------------------------------
(* MonteCarloprice::mc_price *)

TerminalPrice(q, z) ==
    FMul(q.S,
         FExp(FAdd(FMul(FSub(q.r, FMul(FMul(Half, q.sigma), q.sigma)), q.T),
                   FMul(FMul(q.sigma, FSqrt(q.T)), z))))

\* faulty variant: total_payoff = payoff(ST) in place of total_payoff += payoff(ST)
AccumulateOverwrite(total, o, q, z) == payoff(o, TerminalPrice(q, z))

Accumulate(total, o, q, z) == FAdd(total, payoff(o, TerminalPrice(q, z)))

\* faulty variant: i <= n in place of i < n
McCondInclusive(k, cnt) == k <= cnt

\* for(int i=0;i<n;i++)
McCond(k, cnt) == k < cnt

McPrice(q, total, cnt) ==
    FMul(FExp(FMul(FNeg(q.r), q.T)), FDiv(total, ToDouble(cnt)))

RECURSIVE McLoop(_, _, _, _, _, _)
McLoop(o, q, g, cnt, k, total) ==
    IF McCond(k, cnt)
    THEN LET s == sample(g)
         IN  McLoop(o, q, s.g, cnt, k + 1, Accumulate(total, o, q, s.z))
    ELSE [total |-> total, g |-> g]

\* mc_price run to its return: the price and the generator it leaves
mc_price(o, q, g, cnt) ==
    LET done == McLoop(o, q, g, cnt, 0, Zero)
    IN  [price |-> McPrice(q, done.total, cnt), g |-> done.g]

---------------------------------------------------------------------------
(* BlackScholesprice *)

normal_cdf(x) == FMul(Half, FAdd(One, FErf(FDiv(x, FSqrt(ToDouble(2))))))

d1(o, q) ==
    FDiv(FAdd(FLog(FDiv(q.S, strike(o))),
              FMul(FAdd(q.r, FMul(FMul(Half, q.sigma), q.sigma)), q.T)),
         FMul(q.sigma, FSqrt(q.T)))

d2(o, q) == FSub(d1(o, q), FMul(q.sigma, FSqrt(q.T)))

\* faulty variant: the put branch takes N(d2) and N(d1) in place of N(-d2), N(-d1)
bspriceNoNegate(o, q) ==
    LET k1 == d1(o, q)
        k2 == d2(o, q)
    IN  IF call(o)
        THEN FSub(FMul(q.S, normal_cdf(k1)),
                  FMul(FMul(strike(o), FExp(FMul(FNeg(q.r), q.T))), normal_cdf(k2)))
        ELSE FSub(FMul(FMul(strike(o), FExp(FMul(FNeg(q.r), q.T))), normal_cdf(k2)),
                  FMul(q.S, normal_cdf(k1)))

bsprice(o, q) ==
    LET k1 == d1(o, q)
        k2 == d2(o, q)
    IN  IF call(o)
        THEN FSub(FMul(q.S, normal_cdf(k1)),
                  FMul(FMul(strike(o), FExp(FMul(FNeg(q.r), q.T))), normal_cdf(k2)))
        ELSE FSub(FMul(FMul(strike(o), FExp(FMul(FNeg(q.r), q.T))), normal_cdf(FNeg(k2))),
                  FMul(q.S, normal_cdf(FNeg(k1))))

\* faulty variant: the put branch returns 1 - N(d1)
deltaPutSign(o, q) ==
    LET a1 == d1(o, q)
        n1 == normal_cdf(a1)
    IN  IF call(o) THEN n1 ELSE FSub(One, n1)

delta(o, q) ==
    LET a1 == d1(o, q)
        n1 == normal_cdf(a1)
    IN  IF call(o) THEN n1 ELSE FSub(n1, One)

---------------------------------------------------------------------------
(* BinomialTree::price *)

CRR(q, steps) ==
    LET dt0 == FDiv(q.T, ToDouble(steps))
        u0 == FExp(FMul(q.sigma, FSqrt(dt0)))
        d0 == FDiv(One, u0)
    IN  [dt |-> dt0, u |-> u0, d |-> d0,
         disc |-> FExp(FMul(FNeg(q.r), dt0)),
         prob |-> FDiv(FSub(FExp(FMul(q.r, dt0)), d0), FSub(u0, d0))]

NoCRR == [dt |-> Zero, u |-> Zero, d |-> Zero, disc |-> Zero, prob |-> Zero]

\* faulty variant: i < N in place of i <= N
TermCondExclusive(k, steps) == k < steps

\* for(int i=0;i<=N;i++)
TermCond(k, steps) == k <= steps

\* for(int i=N-1;i>=0;i--)
OuterCond(k) == k >= 0

\* for(int j=0;j<=i;j++)
InnerCond(m, k) == m <= k

\* double ST = p.S*pow(u,i)*pow(d,N-i)
NodePrice(q, c, steps, k) == FMul(FMul(q.S, FPow(c.u, k)), FPow(c.d, steps - k))

\* faulty variant: the update stored in values[j+1], which the next update still
\* has to read
InductClobber(c, vals, k) ==
    [vals EXCEPT ![k + 2] =
        FMul(c.disc, FAdd(FMul(c.prob, vals[k + 2]), FMul(FSub(One, c.prob), vals[k + 1])))]

\* values[j] = disc*(prob*values[j+1] + (1.0-prob)*values[j])
Induct(c, vals, k) ==
    [vals EXCEPT ![k + 1] =
        FMul(c.disc, FAdd(FMul(c.prob, vals[k + 2]), FMul(FSub(One, c.prob), vals[k + 1])))]

\* what reading values[0] of an empty vector may yield
GarbageVals == {NaN, Zero, Fin(7 * Scale)}

Garbage == {Thrown("crash")} \cup {Value(x) : x \in GarbageVals}

RECURSIVE TermLoop(_, _, _, _, _, _)
TermLoop(o, q, c, steps, vals, k) ==
    IF TermCond(k, steps)
    THEN TermLoop(o, q, c, steps,
                  [vals EXCEPT ![k + 1] = payoff(o, NodePrice(q, c, steps, k))], k + 1)
    ELSE vals

RECURSIVE InnerLoop(_, _, _, _)
InnerLoop(c, vals, k, m) ==
    IF InnerCond(m, k) THEN InnerLoop(c, Induct(c, vals, m), k, m + 1) ELSE vals

RECURSIVE OuterLoop(_, _, _)
OuterLoop(c, vals, k) ==
    IF OuterCond(k) THEN OuterLoop(c, InnerLoop(c, vals, k, 0), k - 1) ELSE vals

\* BinomialTree::price run to its return, for steps >= 0
price(o, q, steps) ==
    LET c == CRR(q, steps)
        terminal == TermLoop(o, q, c, steps, [k \in 1 .. steps + 1 |-> Zero], 0)
    IN  OuterLoop(c, terminal, steps - 1)[1]

---------------------------------------------------------------------------
(* The sequential caller: one pricer call at a time, all sharing p, the    *)
(* two options and one rng, as main does.                                  *)

NoDirect == /\ ST = Zero
            /\ obs = <<>>

NoThreads == /\ th = <<>>
             /\ rngs = <<>>
             /\ raced = FALSE

\* no pricer call is running
NoCall ==
    /\ pc = "idle"
    /\ op = "none"
    /\ option = "call"
    /\ n = 0
    /\ N = 0
    /\ i = 0
    /\ j = 0
    /\ total_payoff = Zero
    /\ crr = NoCRR
    /\ values = <<>>
    /\ ret = NoRet
    /\ calls = 0
    /\ startPos = 0
    /\ sumPaths = 0
    /\ iters = 0
    /\ termEvals = 0
    /\ updates = 0
    /\ touched = {}

Init ==
    /\ p \in {Parameters(S0, sg, r0, T0) :
                S0 \in SpotSet, sg \in SigmaSet, r0 \in RateSet, T0 \in MaturitySet}
    /\ K \in StrikeSet
    /\ opts = [call |-> EuropeanCall(K), put |-> EuropeanPut(K)]
    /\ \E s \in 0 .. MaxSeed : rng = RNG(s)
    /\ NoCall
    /\ NoDirect
    /\ NoThreads

frame == <<n, N, i, j, total_payoff, crr, values, iters, termEvals, updates, touched>>

caller == <<p, K, opts, calls, sumPaths, ST, obs, th, rngs, raced>>

\* m.mc_price(option, p, rng, n)
McEnter(o, cnt) ==
    /\ pc = "idle"
    /\ calls < MaxCalls
    /\ pc' = "mc_loop"
    /\ op' = "mc"
    /\ option' = o
    /\ n' = cnt
    /\ total_payoff' = Zero
    /\ i' = 0
    /\ iters' = 0
    /\ startPos' = rng.pos
    /\ ret' = NoRet
    /\ UNCHANGED <<N, j, crr, values, termEvals, updates, touched, rng>>
    /\ UNCHANGED caller

\* one pass of for(int i=0;i<n;i++)
McIter ==
    /\ pc = "mc_loop"
    /\ McCond(i, n)
    /\ LET s == sample(rng)
       IN  /\ rng' = s.g
           /\ total_payoff' = Accumulate(total_payoff, opts[option], p, s.z)
    /\ i' = i + 1
    /\ iters' = iters + 1
    /\ UNCHANGED <<pc, op, option, n, N, j, crr, values, ret, startPos,
                   termEvals, updates, touched>>
    /\ UNCHANGED caller

McReturn ==
    /\ pc = "mc_loop"
    /\ ~McCond(i, n)
    /\ ret' = Value(McPrice(p, total_payoff, n))
    /\ pc' = "returned"
    /\ UNCHANGED <<op, option, rng, startPos>>
    /\ UNCHANGED frame
    /\ UNCHANGED caller

\* bs.bsprice(option, p)
BsPrice(o) ==
    /\ pc = "idle"
    /\ calls < MaxCalls
    /\ op' = "bs"
    /\ option' = o
    /\ ret' = Value(bsprice(opts[o], p))
    /\ pc' = "returned"
    /\ UNCHANGED <<rng, startPos>>
    /\ UNCHANGED frame
    /\ UNCHANGED caller

\* bs.delta(option, p)
Delta(o) ==
    /\ pc = "idle"
    /\ calls < MaxCalls
    /\ op' = "delta"
    /\ option' = o
    /\ ret' = Value(delta(opts[o], p))
    /\ pc' = "returned"
    /\ UNCHANGED <<rng, startPos>>
    /\ UNCHANGED frame
    /\ UNCHANGED caller

\* bi.price(option, p, N) up to vector<double> values(N+1)
BinEnter(o, steps) ==
    /\ pc = "idle"
    /\ calls < MaxCalls
    /\ op' = "bin"
    /\ option' = o
    /\ N' = steps
    /\ crr' = CRR(p, steps)
    /\ termEvals' = 0
    /\ updates' = 0
    /\ touched' = {}
    /\ IF steps + 1 < 0
       THEN /\ ret' = Thrown("length_error")
            /\ pc' = "returned"
            /\ UNCHANGED <<values, i>>
       ELSE /\ ret' = NoRet
            /\ values' = [k \in 1 .. steps + 1 |-> Zero]
            /\ i' = 0
            /\ pc' = "bin_term"
    /\ UNCHANGED <<n, j, total_payoff, iters, rng, startPos>>
    /\ UNCHANGED caller

\* one pass of for(int i=0;i<=N;i++)
BinTerminal ==
    /\ pc = "bin_term"
    /\ TermCond(i, N)
    /\ values' = [values EXCEPT ![i + 1] = payoff(opts[option], NodePrice(p, crr, N, i))]
    /\ touched' = touched \cup {i}
    /\ termEvals' = termEvals + 1
    /\ i' = i + 1
    /\ UNCHANGED <<pc, op, option, n, N, j, total_payoff, crr, ret, rng, startPos,
                   iters, updates>>
    /\ UNCHANGED caller

BinTermDone ==
    /\ pc = "bin_term"
    /\ ~TermCond(i, N)
    /\ i' = N - 1
    /\ pc' = "bin_outer"
    /\ UNCHANGED <<op, option, n, N, j, total_payoff, crr, values, ret, rng, startPos,
                   iters, termEvals, updates, touched>>
    /\ UNCHANGED caller

\* for(int i=N-1;i>=0;i--): enter the inner loop
BinOuter ==
    /\ pc = "bin_outer"
    /\ OuterCond(i)
    /\ j' = 0
    /\ pc' = "bin_inner"
    /\ UNCHANGED <<op, option, n, N, i, total_payoff, crr, values, ret, rng, startPos,
                   iters, termEvals, updates, touched>>
    /\ UNCHANGED caller

\* one pass of for(int j=0;j<=i;j++)
BinInner ==
    /\ pc = "bin_inner"
    /\ InnerCond(j, i)
    /\ values' = Induct(crr, values, j)
    /\ touched' = touched \cup {j, j + 1}
    /\ updates' = updates + 1
    /\ j' = j + 1
    /\ UNCHANGED <<pc, op, option, n, N, i, total_payoff, crr, ret, rng, startPos,
                   iters, termEvals>>
    /\ UNCHANGED caller

BinInnerDone ==
    /\ pc = "bin_inner"
    /\ ~InnerCond(j, i)
    /\ i' = i - 1
    /\ pc' = "bin_outer"
    /\ UNCHANGED <<op, option, n, N, j, total_payoff, crr, values, ret, rng, startPos,
                   iters, termEvals, updates, touched>>
    /\ UNCHANGED caller

\* return values[0]
BinReturn ==
    /\ pc = "bin_outer"
    /\ ~OuterCond(i)
    /\ IF Len(values) = 0
       THEN ret' \in Garbage
       ELSE ret' = Value(values[1])
    /\ touched' = touched \cup {0}
    /\ pc' = "returned"
    /\ UNCHANGED <<op, option, n, N, i, j, total_payoff, crr, values, rng, startPos,
                   iters, termEvals, updates>>
    /\ UNCHANGED caller

\* the caller takes the result and goes on
Resume ==
    /\ pc = "returned"
    /\ pc' = "idle"
    /\ calls' = calls + 1
    /\ sumPaths' = IF op = "mc" /\ n >= 1 THEN sumPaths + n ELSE sumPaths
    /\ op' = "none"
    /\ option' = "call"
    /\ ret' = NoRet
    /\ n' = 0
    /\ N' = 0
    /\ i' = 0
    /\ j' = 0
    /\ total_payoff' = Zero
    /\ crr' = NoCRR
    /\ values' = <<>>
    /\ startPos' = 0
    /\ iters' = 0
    /\ termEvals' = 0
    /\ updates' = 0
    /\ touched' = {}
    /\ UNCHANGED <<p, K, opts, rng, ST, obs, th, rngs, raced>>

Next ==
    \/ \E o \in OptionRefs, cnt \in PathCounts : McEnter(o, cnt)
    \/ McIter
    \/ McReturn
    \/ \E o \in OptionRefs : BsPrice(o)
    \/ \E o \in OptionRefs : Delta(o)
    \/ \E o \in OptionRefs, steps \in StepCounts : BinEnter(o, steps)
    \/ BinTerminal
    \/ BinTermDone
    \/ BinOuter
    \/ BinInner
    \/ BinInnerDone
    \/ BinReturn
    \/ Resume

Spec == Init /\ [][Next]_vars

---------------------------------------------------------------------------
(* Properties of the sequential caller *)

Positive(a) == FLess(Zero, a)

\* S > 0, sigma > 0, T > 0 and K > 0, all finite
Valid == /\ IsFin(p.S) /\ IsFin(p.sigma) /\ IsFin(p.r) /\ IsFin(p.T) /\ IsFin(K)
         /\ Positive(p.S) /\ Positive(p.sigma) /\ Positive(p.T) /\ Positive(K)

Returned == pc = "returned"

InvalidKinds == {"InvalidMarketParameters", "InvalidIterationCount",
                 "InvalidContractParameters"}

DegenerateCall ==
    \/ op = "mc" /\ n <= 0
    \/ op = "bin" /\ N <= 0
    \/ op \in {"bs", "delta"} /\ (~Positive(p.sigma) \/ ~Positive(p.T))
    \/ op # "none" /\ (~Positive(K) \/ ~Positive(p.S))

\* C1: a pricer call with degenerate input (pathCount <= 0, stepCount <= 0,
\* sigma <= 0 or T <= 0 for bsprice/delta, non-positive strike or spot) ends in
\* one of the Invalid* errors and never returns a price.
C1_DegenerateRejected ==
    (Returned /\ DegenerateCall) => ret.kind \in InvalidKinds

C3_State ==
    /\ (pc = "mc_loop" => rng.pos = startPos + iters /\ iters = i)
    /\ (Returned /\ op = "mc" /\ n >= 1 => rng.pos = startPos + n)
    /\ (op = "mc" => startPos = sumPaths)
    /\ (pc = "idle" => rng.pos = sumPaths)

C3_Step ==
    (pc = "mc_loop") =>
        /\ UNCHANGED <<p, K, opts, calls, sumPaths, N, j, crr, values>>
        /\ rng'.seed = rng.seed
        /\ rng'.pos = rng.pos + (IF i' = i + 1 THEN 1 ELSE 0)
        /\ (i' = i \/ i' = i + 1)

\* C3: one mc_price call with n >= 1 draws from rng exactly n times, one draw per
\* trial; a call draws from the position the earlier calls left, so the rng has
\* advanced by the sum of the path counts; nothing but the rng and the call's own
\* locals changes while mc_price runs.
C3_Draws == []C3_State /\ [][C3_Step]_vars

C3_Witness ==
    /\ Returned /\ op = "mc" /\ n >= 2
    /\ startPos >= 1
    /\ rng.pos = startPos + n

RECURSIVE SumPayoffs(_, _, _, _, _)
\* payoff(ST_1) + ... + payoff(ST_k), ST_m from the m-th draw after position from
SumPayoffs(o, q, seed, from, k) ==
    IF k = 0 THEN Zero
    ELSE FAdd(SumPayoffs(o, q, seed, from, k - 1),
              payoff(o, FMul(q.S,
                 FExp(FAdd(FMul(FSub(q.r, FMul(FMul(Half, q.sigma), q.sigma)), q.T),
                           FMul(FMul(q.sigma, FSqrt(q.T)),
                                Draw([seed |-> seed, pos |-> from + k - 1])))))))

\* C4: after trial k the accumulator is the sum of the first k payoffs, each from
\* the terminal price of its own draw, and for n >= 1 the result is
\* exp(-r*T) * (sum of the n payoffs / n).
C4_Mean ==
    /\ (pc = "mc_loop" =>
          total_payoff = SumPayoffs(opts[option], p, rng.seed, startPos, i))
    /\ (Returned /\ op = "mc" /\ n >= 1 =>
          ret = Value(FMul(FExp(FMul(FNeg(p.r), p.T)),
                           FDiv(SumPayoffs(opts[option], p, rng.seed, startPos, n),
                                ToDouble(n)))))

C4_Witness ==
    /\ Returned /\ op = "mc" /\ n >= 2 /\ Valid
    /\ IsFin(ret.val) /\ ret.val.v > 0
    /\ total_payoff # payoff(opts[option], TerminalPrice(p, Draw(RNG(rng.seed))))

RECURSIVE LayerV(_, _, _, _, _, _)
\* the layered recurrence: V[steps][k] is the payoff at S*u^k*d^(steps-k), and
\* V[step][k] = disc*(prob*V[step+1][k+1] + (1-prob)*V[step+1][k])
LayerV(o, q, c, steps, step, k) ==
    IF step = steps
    THEN payoff(o, FMul(FMul(q.S, FPow(c.u, k)), FPow(c.d, steps - k)))
    ELSE FMul(c.disc,
              FAdd(FMul(c.prob, LayerV(o, q, c, steps, step + 1, k + 1)),
                   FMul(FSub(One, c.prob), LayerV(o, q, c, steps, step + 1, k))))

V(step, k) == LayerV(opts[option], p, crr, N, step, k)

\* C5: for N >= 1 the in-place backward induction computes the layered
\* recurrence: between passes values[0..step] is layer step; inside the pass for
\* step i, the entries below j are layer i and those from j to i+1 still layer
\* i+1; every index touched is in 0..N; the value returned is V[0][0].
C5_InPlace ==
    (op = "bin" /\ N >= 1) =>
        /\ (pc = "bin_outer" => \A k \in 0 .. i + 1 : values[k + 1] = V(i + 1, k))
        /\ (pc = "bin_inner" =>
              /\ \A k \in 0 .. j - 1 : values[k + 1] = V(i, k)
              /\ \A k \in j .. i + 1 : values[k + 1] = V(i + 1, k))
        /\ (Returned => ret = Value(V(0, 0)))
        /\ touched \subseteq 0 .. N

C5_Witness ==
    /\ Returned /\ op = "bin" /\ N >= 2 /\ Valid
    /\ updates >= 3
    /\ IsFin(ret.val) /\ ret.val.v > 0
    /\ ret.val # V(1, 0)

Max0(m) == IF m > 0 THEN m ELSE 0

\* steps the loops for(i=m;i>=0;i--) for(j=0;j<=i;j++) still take
BackSteps(m) == IF m < 0 THEN 0 ELSE ((m + 1) * (m + 6)) \div 2

\* steps left before the running call returns
Remaining ==
    CASE pc = "mc_loop"   -> Max0(n - i) + 1
      [] pc = "bin_term"  -> Max0(N + 1 - i) + 1 + BackSteps(N - 1) + 1
      [] pc = "bin_outer" -> BackSteps(i) + 1
      [] pc = "bin_inner" -> Max0(i + 1 - j) + 1 + BackSteps(i - 1) + 1
      [] OTHER            -> 0

Running == pc \in {"mc_loop", "bin_term", "bin_outer", "bin_inner"}

C9_State ==
    /\ (op = "mc" => iters <= Max0(n))
    /\ (op = "mc" /\ Returned => iters = Max0(n))
    /\ (op = "bin" => termEvals <= Max0(N + 1) /\ updates <= (Max0(N) * (Max0(N) + 1)) \div 2)
    /\ (op = "bin" /\ updates > 0 => termEvals = N + 1)
    /\ (op = "bin" /\ Returned /\ N >= 0 =>
          termEvals = N + 1 /\ updates = (N * (N + 1)) \div 2)
    /\ (Running => Remaining > 0)

C9_Step == Running => Remaining' = Remaining - 1

\* C9: every pricing call terminates: each step of a running call brings it one
\* step closer to its return; mc_price returns after exactly n loop iterations
\* (none for n <= 0), BinomialTree::price after N+1 terminal-node evaluations
\* followed by exactly N*(N+1)/2 backward-induction updates; no loop runs beyond
\* its bound.
C9_Terminates == []C9_State /\ [][C9_Step]_vars

C9_Witness ==
    /\ Returned /\ op = "bin" /\ N >= 2
    /\ termEvals = N + 1 /\ updates = (N * (N + 1)) \div 2
    /\ sumPaths >= 2

\* C10: BinomialTree::price with N = 0 builds one terminal node, makes no
\* backward-induction update, applies no discounting, and returns the payoff at
\* the spot price S.
C10_ZeroSteps ==
    (op = "bin" /\ N = 0 /\ Returned) =>
        /\ Len(values) = 1
        /\ termEvals = 1
        /\ updates = 0
        /\ ret = Value(payoff(opts[option], p.S))

C10_Witness ==
    /\ Returned /\ op = "bin" /\ N = 0 /\ Valid
    /\ IsFin(ret.val) /\ ret.val.v > 0
    /\ ret.val # FMul(crr.disc, payoff(opts[option], p.S))

---------------------------------------------------------------------------
(* A direct caller of the Option interface: it constructs a call and a put  *)
(* with strike K and calls payoff(ST), call() and strike() on each.         *)

PayStrikes == {Fin(-5 * Scale), Zero, Fin(50 * Scale), Fin(100 * Scale), Fin(100 * Scale + 1)}

PayPrices == {Zero, Fin(1), Fin(50 * Scale), Fin(100 * Scale),
              Fin(100 * Scale + 1), Fin(150 * Scale)}

MainParams == Parameters(Fin(100 * Scale), Fin(200), Fin(50), One)

Has(name, o) == <<name, o>> \in DOMAIN obs

Got(name, o) == obs[<<name, o>>]

Record(name, o, x) ==
    /\ ~Has(name, o)
    /\ obs' = obs @@ (<<name, o>> :> x)

InitPayoff ==
    /\ p = MainParams
    /\ K \in PayStrikes
    /\ opts = [call |-> EuropeanCall(K), put |-> EuropeanPut(K)]
    /\ rng = RNG(0)
    /\ NoCall
    /\ ST \in PayPrices
    /\ obs = <<>>
    /\ NoThreads

direct == <<p, K, opts, rng, pc, op, option, ret, calls, startPos, sumPaths, ST,
            th, rngs, raced>>

CallPayoff(o) ==
    /\ Record("payoff", o, payoff(opts[o], ST))
    /\ UNCHANGED direct
    /\ UNCHANGED frame

CallIsCall(o) ==
    /\ Record("call", o, call(opts[o]))
    /\ UNCHANGED direct
    /\ UNCHANGED frame

CallStrike(o) ==
    /\ Record("strike", o, strike(opts[o]))
    /\ UNCHANGED direct
    /\ UNCHANGED frame

NextPayoff ==
    \/ \E o \in OptionRefs : CallPayoff(o)
    \/ \E o \in OptionRefs : CallIsCall(o)
    \/ \E o \in OptionRefs : CallStrike(o)

SpecPayoff == InitPayoff /\ [][NextPayoff]_vars

\* C2: for a strike K and a terminal price ST >= 0 the call pays max(ST-K, 0) and
\* the put max(K-ST, 0): the payoff is the larger of the difference and zero, so
\* never negative; call() is true exactly for the call; strike() is the K given
\* at construction.
C2_Payoff ==
    /\ \A o \in OptionRefs :
         Has("payoff", o) =>
            LET diff == IF o = "call" THEN ST.v - K.v ELSE K.v - ST.v
                pay == Got("payoff", o)
            IN  /\ IsFin(pay)
                /\ pay.v >= 0
                /\ pay.v >= diff
                /\ pay.v \in {0, diff}
    /\ \A o \in OptionRefs : Has("call", o) => (Got("call", o) <=> o = "call")
    /\ \A o \in OptionRefs : Has("strike", o) => Got("strike", o) = K

C2_Witness ==
    /\ Has("payoff", "call") /\ Got("payoff", "call").v > 0
    /\ Has("payoff", "put") /\ Got("payoff", "put") = Zero
    /\ Has("call", "put") /\ Has("call", "call")
    /\ Has("strike", "put") /\ Got("strike", "put").v > 0

---------------------------------------------------------------------------
(* A direct caller of BlackScholesprice: bsprice and delta of a call and a  *)
(* put with the same strike, as main does.                                  *)

BsSpots == {Fin(80 * Scale), Fin(100 * Scale), Fin(120 * Scale + 500)}

BsStrikes == {Zero, Fin(90 * Scale), Fin(100 * Scale), Fin(125 * Scale)}

BsSigmas == {Zero, Fin(100), Fin(200), Fin(500)}

BsRates == {Zero, Fin(50), Fin(100)}

BsMaturities == {Zero, Fin(250), One, Fin(2 * Scale)}

InitBS ==
    /\ p \in {Parameters(S0, sg, r0, T0) :
                S0 \in BsSpots, sg \in BsSigmas, r0 \in BsRates, T0 \in BsMaturities}
    /\ K \in BsStrikes
    /\ opts = [call |-> EuropeanCall(K), put |-> EuropeanPut(K)]
    /\ rng = RNG(0)
    /\ NoCall
    /\ ST = Zero
    /\ obs = <<>>
    /\ NoThreads

CallBsprice(o) ==
    /\ Record("bsprice", o, bsprice(opts[o], p))
    /\ UNCHANGED direct
    /\ UNCHANGED frame

CallDelta(o) ==
    /\ Record("delta", o, delta(opts[o], p))
    /\ UNCHANGED direct
    /\ UNCHANGED frame

NextBS ==
    \/ \E o \in OptionRefs : CallBsprice(o)
    \/ \E o \in OptionRefs : CallDelta(o)

SpecBS == InitBS /\ [][NextBS]_vars

\* the rounding error a product with x can carry: one unit in the last place of x
Ulp(x) == Abs(x.v) \div Scale + 1

\* C6: put-call parity. For S > 0, sigma > 0, T > 0 and a call and a put with the
\* same strike K > 0, bsprice(call) - bsprice(put) is S - K*exp(-r*T), up to the
\* rounding of the products (one unit in the last place of S and of K).
C6_Parity ==
    (Valid /\ Has("bsprice", "call") /\ Has("bsprice", "put")) =>
        LET lhs == FSub(Got("bsprice", "call"), Got("bsprice", "put"))
            rhs == FSub(p.S, FMul(K, FExp(FMul(FNeg(p.r), p.T))))
        IN  /\ IsFin(lhs) /\ IsFin(rhs)
            /\ Abs(lhs.v - rhs.v) <= Ulp(p.S) + Ulp(K)

\* C6 as worded: bsprice(call) - bsprice(put) equals S - K*exp(-r*T) exactly.
C6_ExactParity ==
    (Valid /\ Has("bsprice", "call") /\ Has("bsprice", "put")) =>
        FSub(Got("bsprice", "call"), Got("bsprice", "put"))
            = FSub(p.S, FMul(K, FExp(FMul(FNeg(p.r), p.T))))

C6_Witness ==
    /\ Valid /\ Has("bsprice", "call") /\ Has("bsprice", "put")
    /\ Got("bsprice", "call").v > Scale
    /\ Got("bsprice", "put").v > Scale
    /\ Got("bsprice", "call") # Got("bsprice", "put")

\* C7: for valid parameters and a call and a put with the same strike,
\* delta(call) is in [0,1], delta(put) is in [-1,0], and
\* delta(call) - delta(put) = 1.
C7_Delta ==
    /\ (Valid /\ Has("delta", "call")) =>
          /\ IsFin(Got("delta", "call"))
          /\ Got("delta", "call").v \in 0 .. Scale
    /\ (Valid /\ Has("delta", "put")) =>
          /\ IsFin(Got("delta", "put"))
          /\ Got("delta", "put").v \in -Scale .. 0
    /\ (Valid /\ Has("delta", "call") /\ Has("delta", "put")) =>
          FSub(Got("delta", "call"), Got("delta", "put")) = One

C7_Witness ==
    /\ Valid /\ Has("delta", "call") /\ Has("delta", "put")
    /\ Got("delta", "call").v \in 1 .. Scale - 1
    /\ Got("delta", "put").v \in 1 - Scale .. -1

---------------------------------------------------------------------------
(* Concurrent callers: each thread makes one pricer call on the shared p    *)
(* and options.  Thread t constructs RNG instance t; an mc_price call is    *)
(* handed its own instance or another thread's.  Nothing in the code        *)
(* synchronises, so two pending accesses to one object, one of them a       *)
(* write, are a data race, and a step taken in a race has an arbitrary      *)
(* outcome.                                                                 *)

Threads == {1, 2}

ConcStrikes == {Fin(90 * Scale), Fin(110 * Scale)}

MaxPos == 2 * MaxPaths

Frame(kind0, o, cnt, steps, g) ==
    [kind |-> kind0, option |-> o, n |-> cnt, N |-> steps, rng |-> g,
     pc |-> "start", i |-> 0, total_payoff |-> Zero, ret |-> NoRet]

FramesOf(t) ==
    {Frame("mc", o, cnt, 0, g) : o \in OptionRefs, cnt \in 1 .. MaxPaths, g \in Threads}
    \cup {Frame("bs", o, 0, 0, t) : o \in OptionRefs}
    \cup {Frame("bin", o, 0, steps, t) : o \in OptionRefs, steps \in 1 .. MaxSteps}

\* faulty variant: every mc_price call draws from one process-wide RNG
RngRefGlobal(f) == 1

\* the RNG instance an mc_price call draws from: its RNG& rng argument
RngRef(f) == f.rng

\* the shared objects the next step of a frame reads or writes
Pending(f) ==
    IF f.kind = "mc" /\ f.pc = "loop" /\ McCond(f.i, f.n)
    THEN {[obj |-> "rng", id |-> RngRef(f), write |-> TRUE],
          [obj |-> "p", id |-> 0, write |-> FALSE],
          [obj |-> "option", id |-> IF f.option = "call" THEN 1 ELSE 2, write |-> FALSE]}
    ELSE IF f.kind = "mc" /\ f.pc = "loop"
    THEN {[obj |-> "p", id |-> 0, write |-> FALSE]}
    ELSE IF f.kind \in {"bs", "bin"} /\ f.pc = "start"
    THEN {[obj |-> "p", id |-> 0, write |-> FALSE],
          [obj |-> "option", id |-> IF f.option = "call" THEN 1 ELSE 2, write |-> FALSE]}
    ELSE {}

Conflicts(f, g) ==
    {a \in Pending(f) : \E b \in Pending(g) :
        a.obj = b.obj /\ a.id = b.id /\ (a.write \/ b.write)}

Racing(t) == \E t2 \in Threads \ {t} : Conflicts(th[t], th[t2]) # {}

InitConc ==
    /\ p = MainParams
    /\ K \in ConcStrikes
    /\ opts = [call |-> EuropeanCall(K), put |-> EuropeanPut(K)]
    /\ rng = RNG(0)
    /\ NoCall
    /\ NoDirect
    /\ th \in [Threads -> UNION {FramesOf(t) : t \in Threads}]
    /\ \A t \in Threads : th[t] \in FramesOf(t)
    /\ rngs = [t \in Threads |-> RNG(t - 1)]
    /\ raced = FALSE

shared == <<p, K, opts, rng, pc, op, option, ret, calls, startPos, sumPaths, ST, obs>>

TMcEnter(t) ==
    /\ th[t].kind = "mc"
    /\ th[t].pc = "start"
    /\ th' = [th EXCEPT ![t].pc = "loop", ![t].total_payoff = Zero, ![t].i = 0]
    /\ UNCHANGED <<rngs, raced>>
    /\ UNCHANGED shared
    /\ UNCHANGED frame

TMcIter(t) ==
    /\ th[t].kind = "mc"
    /\ th[t].pc = "loop"
    /\ McCond(th[t].i, th[t].n)
    /\ IF Racing(t)
       THEN /\ raced' = TRUE
            /\ \E q \in 0 .. MaxPos :
                 rngs' = [rngs EXCEPT ![RngRef(th[t])].pos = q]
            /\ \E x \in GarbageVals :
                 th' = [th EXCEPT ![t].total_payoff = x, ![t].i = @ + 1]
       ELSE LET s == sample(rngs[RngRef(th[t])])
            IN  /\ rngs' = [rngs EXCEPT ![RngRef(th[t])] = s.g]
                /\ th' = [th EXCEPT
                            ![t].total_payoff =
                                Accumulate(@, opts[th[t].option], p, s.z),
                            ![t].i = @ + 1]
                /\ UNCHANGED raced
    /\ UNCHANGED shared
    /\ UNCHANGED frame

TMcReturn(t) ==
    /\ th[t].kind = "mc"
    /\ th[t].pc = "loop"
    /\ ~McCond(th[t].i, th[t].n)
    /\ th' = [th EXCEPT ![t].ret = Value(McPrice(p, th[t].total_payoff, th[t].n)),
                        ![t].pc = "done"]
    /\ UNCHANGED <<rngs, raced>>
    /\ UNCHANGED shared
    /\ UNCHANGED frame

TBsPrice(t) ==
    /\ th[t].kind = "bs"
    /\ th[t].pc = "start"
    /\ th' = [th EXCEPT ![t].ret = Value(bsprice(opts[th[t].option], p)),
                        ![t].pc = "done"]
    /\ UNCHANGED <<rngs, raced>>
    /\ UNCHANGED shared
    /\ UNCHANGED frame

TBinPrice(t) ==
    /\ th[t].kind = "bin"
    /\ th[t].pc = "start"
    /\ th' = [th EXCEPT ![t].ret = Value(price(opts[th[t].option], p, th[t].N)),
                        ![t].pc = "done"]
    /\ UNCHANGED <<rngs, raced>>
    /\ UNCHANGED shared
    /\ UNCHANGED frame

NextConc ==
    \E t \in Threads :
        \/ TMcEnter(t)
        \/ TMcIter(t)
        \/ TMcReturn(t)
        \/ TBsPrice(t)
        \/ TBinPrice(t)

SpecConc == InitConc /\ [][NextConc]_vars

\* an mc_price call that was handed the RNG instance of another mc_price call
SharesRng(t) ==
    /\ th[t].kind = "mc"
    /\ \E t2 \in Threads \ {t} : th[t2].kind = "mc" /\ th[t2].rng = th[t].rng

\* what the call of thread t returns when it runs alone
AloneRet(t) ==
    LET f == th[t]
    IN  CASE f.kind = "mc" ->
               Value(mc_price(opts[f.option], p, RNG(rngs[f.rng].seed), f.n).price)
          [] f.kind = "bs" -> Value(bsprice(opts[f.option], p))
          [] f.kind = "bin" -> Value(price(opts[f.option], p, f.N))

AloneRng(t) ==
    LET f == th[t]
    IN  mc_price(opts[f.option], p, RNG(rngs[f.rng].seed), f.n).g

C8_State ==
    /\ \A t \in Threads :
         (th[t].pc = "done" /\ ~SharesRng(t)) =>
            /\ th[t].ret = AloneRet(t)
            /\ (th[t].kind = "mc" => rngs[th[t].rng] = AloneRng(t))
    /\ \A t1, t2 \in Threads :
         (t1 # t2 /\ Conflicts(th[t1], th[t2]) # {}) =>
            /\ \A a \in Conflicts(th[t1], th[t2]) : a.obj = "rng"
            /\ th[t1].kind = "mc" /\ th[t2].kind = "mc"
            /\ th[t1].rng = th[t2].rng
    /\ (raced => \E t \in Threads : SharesRng(t))

C8_Step == UNCHANGED <<p, K, opts>>

\* C8: concurrent pricer calls, each mc_price call with its own RNG instance,
\* share no mutable state: in every interleaving each call returns what it
\* returns when run alone and leaves its RNG as when run alone; p and the
\* options are never written; the only data race that can happen is between two
\* mc_price calls calling sample() on the same RNG instance.
C8_Isolation == []C8_State /\ [][C8_Step]_vars

C8_Witness ==
    /\ \A t \in Threads :
         /\ th[t].kind = "mc" /\ th[t].pc = "done" /\ th[t].n >= 2
         /\ th[t].rng = t
         /\ IsFin(th[t].ret.val) /\ th[t].ret.val.v > 0
    /\ ~raced

===========================================================================
